---- MODULE Spec2Model ----
(***************************************************************************)
(* A model of the research-to-article pipeline of researcher1.py:          *)
(*   perform_web_research, prepare_content_for_gpt, generate_article,      *)
(*   extract_metadata and convert_to_wordpress_blocks.                     *)
(* Python strings are sequences of one-character strings; Python None is   *)
(* the empty option None and a present value x is Some(x).                 *)
(***************************************************************************)
EXTENDS Integers, Sequences, FiniteSets, TLC

VARIABLES
    \* perform_web_research
    selected_categories, categories_to_search, cat_i, all_results,
    successful_categories, failed_categories, calls, ui, ret, pc_search,
    \* prepare_content_for_gpt
    serialized_results, selected_indices, content, item_i, pc_prompt,
    \* escape_markdown_characters
    escape_arg, escaped_text, pc_escape,
    \* extract_metadata
    markdown_text, em_lines, em_i, em_title, em_meta, pc_extract,
    \* generate_article
    chat_calls, article_content, title, meta_description, generated, pc_generate,
    \* convert_to_wordpress_blocks
    lines, i, wp_blocks, current_paragraph, metadata, output, pc_convert,
    \* history: the numbers of the source lines held by current_paragraph, and
    \* by each block of wp_blocks
    paragraph_lines, block_lines,
    \* main: st.session_state, the source checkboxes that are unchecked, where the
    \* last run of the script ended, and what it called prepare_content_for_gpt with
    search_performed, search_results, source_unchecked, pc_main, prepare_args

vars_search == <<selected_categories, categories_to_search, cat_i, all_results,
                 successful_categories, failed_categories, calls, ui, ret, pc_search>>

vars_prompt == <<serialized_results, selected_indices, content, item_i, pc_prompt>>

vars_escape == <<escape_arg, escaped_text, pc_escape>>

vars_extract == <<markdown_text, em_lines, em_i, em_title, em_meta, pc_extract>>

vars_generate == <<chat_calls, article_content, title, meta_description, generated,
                   pc_generate>>

vars_convert == <<lines, i, wp_blocks, current_paragraph, metadata, output, pc_convert,
                  paragraph_lines, block_lines>>

vars_main == <<search_performed, search_results, source_unchecked, pc_main, prepare_args>>

vars == <<vars_search, vars_prompt, vars_escape, vars_extract, vars_generate, vars_convert,
          vars_main>>

\* the state of the other functions, which a function leaves alone
not_search == <<vars_prompt, vars_escape, vars_extract, vars_generate, vars_convert,
    vars_main>>
not_prompt == <<vars_search, vars_escape, vars_extract, vars_generate, vars_convert,
    vars_main>>
not_escape == <<vars_search, vars_prompt, vars_extract, vars_generate, vars_convert,
    vars_main>>
not_extract == <<vars_search, vars_prompt, vars_escape, vars_generate, vars_convert,
    vars_main>>
not_generate == <<vars_search, vars_prompt, vars_escape, vars_extract, vars_convert,
    vars_main>>
not_convert == <<vars_search, vars_prompt, vars_escape, vars_extract, vars_generate,
    vars_main>>
not_main == <<vars_search, vars_prompt, vars_escape, vars_extract, vars_generate,
    vars_convert>>

(***************************************************************************)
(* Bounds of the model.                                                    *)
(***************************************************************************)
\* most results the search backend returns for one category
MaxPerCategory == 2
\* most results merged in one search (caps the backend's answers)
MaxTotalResults == 3
\* most category checkboxes checked one by one (["all"] and [] search all six)
MaxSelected == 2
\* most results in the serialized results handed to prepare_content_for_gpt
MaxResultsLen == 3
\* most entries of selected_indices
MaxPicked == 2
\* most lines of a text handed to extract_metadata
\* the longest title or text given to escape_markdown_characters on its own
MaxTextLen == 3
MaxMetaLines == 3
\* most lines of an article the chat backend writes
MaxArticleLines == 3
\* most lines of the chat backend's answer to the metadata request
MaxAnswerLines == 2
\* most lines of a document built from DocLinePool for convert_to_wordpress_blocks
\* the most pieces (words, links, citations) of a paragraph line with citations
MaxPieces == 3
\* the most results a search brings back into st.session_state
MaxStoredResults == 2
MaxDocLines == 3

(***************************************************************************)
(* Python values.                                                          *)
(***************************************************************************)
None == <<>>
Some(x) == <<x>>
IsNone(o) == o = <<>>
Val(o) == o[1]

Range(s) == {s[k] : k \in 1..Len(s)}

(***************************************************************************)
(* Python str methods, on sequences of characters.                         *)
(***************************************************************************)
\* s.startswith(p), s.endswith(p), s[n:]
StartsWith(s, p) == Len(s) >= Len(p) /\ SubSeq(s, 1, Len(p)) = p
EndsWith(s, p) == Len(s) >= Len(p) /\ SubSeq(s, Len(s) - Len(p) + 1, Len(s)) = p
Drop(s, n) == SubSeq(s, n + 1, Len(s))

\* sub in s
Contains(s, sub) == \E k \in 0..(Len(s) - Len(sub)) : SubSeq(s, k + 1, k + Len(sub)) = sub

\* s.lstrip(chars), s.rstrip(chars), s.strip(chars)
RECURSIVE LStripChars(_, _)
LStripChars(s, chars) ==
    IF s # <<>> /\ s[1] \in chars THEN LStripChars(Tail(s), chars) ELSE s
RECURSIVE RStripChars(_, _)
RStripChars(s, chars) ==
    IF s # <<>> /\ s[Len(s)] \in chars
    THEN RStripChars(SubSeq(s, 1, Len(s) - 1), chars) ELSE s
StripChars(s, chars) == RStripChars(LStripChars(s, chars), chars)

\* s.strip()
Whitespace == {" ", "\n", "\t"}
Strip(s) == StripChars(s, Whitespace)

\* s.replace(old, new), old not empty: every occurrence, found left to right
RECURSIVE Replace(_, _, _)
Replace(s, old, new) ==
    IF Len(s) < Len(old) THEN s
    ELSE IF StartsWith(s, old) THEN new \o Replace(Drop(s, Len(old)), old, new)
    ELSE <<s[1]>> \o Replace(Tail(s), old, new)

\* s.split(sep), sep not empty
RECURSIVE SplitFrom(_, _, _)
SplitFrom(s, sep, acc) ==
    IF Len(s) < Len(sep) THEN <<acc \o s>>
    ELSE IF StartsWith(s, sep) THEN <<acc>> \o SplitFrom(Drop(s, Len(sep)), sep, <<>>)
    ELSE SplitFrom(Tail(s), sep, Append(acc, s[1]))
Split(s, sep) == SplitFrom(s, sep, <<>>)

\* sep.join(parts)
RECURSIVE Join(_, _)
Join(parts, sep) ==
    IF parts = <<>> THEN <<>>
    ELSE IF Len(parts) = 1 THEN parts[1]
    ELSE parts[1] \o sep \o Join(Tail(parts), sep)

\* s.lower(), for the letters of the model's texts
UpperCase == <<"A", "B", "C", "D", "E", "F", "G", "H", "I", "J", "K", "L", "M",
               "N", "O", "P", "Q", "R", "S", "T", "U", "V", "W", "X", "Y", "Z">>
LowerCase == <<"a", "b", "c", "d", "e", "f", "g", "h", "i", "j", "k", "l", "m",
               "n", "o", "p", "q", "r", "s", "t", "u", "v", "w", "x", "y", "z">>
LowerChar(c) ==
    IF \E k \in 1..26 : UpperCase[k] = c
    THEN LowerCase[CHOOSE k \in 1..26 : UpperCase[k] = c] ELSE c
Lower(s) == [k \in 1..Len(s) |-> LowerChar(s[k])]

\* all sequences over S of length lo..hi
SeqsOf(S, lo, hi) == UNION {[1..n -> S] : n \in lo..hi}

(***************************************************************************)
(* perform_web_research                                                    *)
(***************************************************************************)
all_categories == <<"company", "research_paper", "news", "tweet", "personal_site", "pdf">>

\* the category checkboxes of main, in the order main reads them
ui_categories == <<"news", "research_paper", "company", "tweet", "personal_site", "pdf">>

Pick(seq, S) == SelectSeq(seq, LAMBDA c : c \in S)

\* what a caller passes as selected_categories: None (the parameter's default),
\* ["all"], or the checked categories in checkbox order (none checked: [])
SelectedInputs ==
    {None, Some(<<"all">>)}
    \cup {Some(Pick(ui_categories, S)) : S \in {T \in SUBSET Range(ui_categories) : Cardinality(T) <= MaxSelected}}

\* result.score: None, or a number (two values suffice to order and to tie)
Scores == {None, Some(0), Some(1)}

\* the k-th result the backend returned for a category
Result(category, k, score) == [url |-> <<category, k>>, score |-> score]

\* the non-empty result lists the backend may return for a category
BackendResults(category) ==
    UNION {{[k \in 1..n |-> Result(category, k, sc[k])] : sc \in [1..n -> Scores]}
           : n \in 1..MaxPerCategory}

suggestions == <<"Try a broader search query",
                 "Increase the time window",
                 "Select different categories",
                 "Check if the query contains any special characters",
                 "Try using more general keywords">>

Msg(kind, arg) == [kind |-> kind, arg |-> arg]

\* key=lambda x: x.score if x.score is not None else 0
SortKey(x) == IF ~IsNone(x.score) THEN Val(x.score) ELSE 0

\* mutant: an unstable descending sort, which puts a result before its equals
InsertByScoreUnstable(sorted, x) ==
    LET before == {k \in 1..Len(sorted) : SortKey(sorted[k]) > SortKey(x)}
        n == IF before = {} THEN 0 ELSE CHOOSE k \in before : \A m \in before : m <= k
    IN  SubSeq(sorted, 1, n) \o <<x>> \o SubSeq(sorted, n + 1, Len(sorted))

\* list.sort(key=..., reverse=True) is stable: among equal keys the earlier stays first
InsertByScore(sorted, x) ==
    LET before == {k \in 1..Len(sorted) : SortKey(sorted[k]) >= SortKey(x)}
        n == IF before = {} THEN 0 ELSE CHOOSE k \in before : \A m \in before : m <= k
    IN  SubSeq(sorted, 1, n) \o <<x>> \o SubSeq(sorted, n + 1, Len(sorted))

RECURSIVE SortByScore(_)
SortByScore(seq) ==
    IF seq = <<>> THEN <<>>
    ELSE InsertByScore(SortByScore(SubSeq(seq, 1, Len(seq) - 1)), seq[Len(seq)])

SearchResponse(results) == [kind |-> "SearchResponse", results |-> results]
ReturnedNone == [kind |-> "None", results |-> <<>>]
NotReturned == [kind |-> "running", results |-> <<>>]

InitSearch ==
    /\ selected_categories \in SelectedInputs
    /\ categories_to_search = <<>>
    /\ cat_i = 0
    /\ all_results = <<>>
    /\ successful_categories = <<>>
    /\ failed_categories = <<>>
    /\ calls = <<>>
    /\ ui = <<>>
    /\ ret = NotReturned
    /\ pc_search = "start"

\* mutant: an empty selection is searched as it is, with no default
ResolveCategoriesNoDefault ==
    /\ pc_search = "start"
    /\ ~IsNone(selected_categories)
    /\ LET sel == Val(selected_categories)
       IN  categories_to_search' = IF "all" \in Range(sel) THEN all_categories ELSE sel
    /\ cat_i' = 1
    /\ all_results' = <<>>
    /\ successful_categories' = <<>>
    /\ failed_categories' = <<>>
    /\ pc_search' = "loop"
    /\ UNCHANGED <<selected_categories, calls, ui, ret>>
    /\ UNCHANGED not_search

\* lines 45-53: resolve the categories and reset the accumulators
ResolveCategories ==
    /\ pc_search = "start"
    /\ ~IsNone(selected_categories)
    /\ LET sel == Val(selected_categories)
       IN  categories_to_search' =
               IF "all" \in Range(sel) THEN all_categories
               ELSE IF sel # <<>> THEN sel ELSE all_categories
    /\ cat_i' = 1
    /\ all_results' = <<>>
    /\ successful_categories' = <<>>
    /\ failed_categories' = <<>>
    /\ pc_search' = "loop"
    /\ UNCHANGED <<selected_categories, calls, ui, ret>>
    /\ UNCHANGED not_search

\* line 48 with selected_categories None: `"all" in None` raises TypeError,
\* caught by the outer handler (lines 107-110)
ResolveRaises ==
    /\ pc_search = "start"
    /\ IsNone(selected_categories)
    /\ ui' = Append(ui, Msg("error", <<"Error during research">>))
    /\ ret' = ReturnedNone
    /\ pc_search' = "done"
    /\ UNCHANGED <<selected_categories, categories_to_search, cat_i, all_results,
                   successful_categories, failed_categories, calls>>
    /\ UNCHANGED not_search

InLoop == pc_search = "loop" /\ cat_i <= Len(categories_to_search)

\* one backend call as the backend saw it: the category asked for and what it
\* answered ("ok" with results, "empty": None or no results, "raise": an exception)
Call(category, kind, results) == [category |-> category, kind |-> kind, results |-> results]

\* lines 58-72: the backend answers with results
CategorySucceeds ==
    /\ InLoop
    /\ LET category == categories_to_search[cat_i]
       IN  \E results \in BackendResults(category) :
              /\ Len(all_results) + Len(results) <= MaxTotalResults
              /\ calls' = Append(calls, Call(category, "ok", results))
              /\ all_results' = all_results \o results
              /\ successful_categories' = Append(successful_categories, category)
    /\ cat_i' = cat_i + 1
    /\ UNCHANGED <<selected_categories, categories_to_search, failed_categories,
                   ui, ret, pc_search>>
    /\ UNCHANGED not_search

\* mutant: an empty answer is not recorded as a failed category
CategoryEmptyUnrecorded ==
    /\ InLoop
    /\ calls' = Append(calls, Call(categories_to_search[cat_i], "empty", <<>>))
    /\ cat_i' = cat_i + 1
    /\ UNCHANGED <<selected_categories, categories_to_search, all_results,
                   successful_categories, failed_categories, ui, ret, pc_search>>
    /\ UNCHANGED not_search

\* lines 69, 73-75: the backend answers None or an empty result list
CategoryEmpty ==
    /\ InLoop
    /\ LET category == categories_to_search[cat_i]
       IN  /\ calls' = Append(calls, Call(category, "empty", <<>>))
           /\ failed_categories' = Append(failed_categories, category)
    /\ cat_i' = cat_i + 1
    /\ UNCHANGED <<selected_categories, categories_to_search, all_results,
                   successful_categories, ui, ret, pc_search>>
    /\ UNCHANGED not_search

\* mutant: the exception of one category is not caught in the loop and ends the
\* search in the outer handler
CategoryRaisesAborts ==
    /\ InLoop
    /\ calls' = Append(calls, Call(categories_to_search[cat_i], "raise", <<>>))
    /\ ui' = Append(ui, Msg("error", <<"Error during research">>))
    /\ ret' = ReturnedNone
    /\ pc_search' = "done"
    /\ UNCHANGED <<selected_categories, categories_to_search, cat_i, all_results,
                   successful_categories, failed_categories>>
    /\ UNCHANGED not_search

\* lines 77-80: the backend call raises; the handler records the category and continues
CategoryRaises ==
    /\ InLoop
    /\ LET category == categories_to_search[cat_i]
       IN  /\ calls' = Append(calls, Call(category, "raise", <<>>))
           /\ failed_categories' = Append(failed_categories, category)
    /\ cat_i' = cat_i + 1
    /\ UNCHANGED <<selected_categories, categories_to_search, all_results,
                   successful_categories, ui, ret, pc_search>>
    /\ UNCHANGED not_search

\* lines 82-86: st.info / st.warning about the categories
Feedback ==
    (IF successful_categories # <<>> THEN <<Msg("info", successful_categories)>> ELSE <<>>)
    \o (IF failed_categories # <<>> THEN <<Msg("warning", failed_categories)>> ELSE <<>>)

LoopOver == pc_search = "loop" /\ cat_i > Len(categories_to_search)

\* lines 82-100: nothing found in any category
ReturnNoResults ==
    /\ LoopOver
    /\ all_results = <<>>
    /\ ui' = ui \o Feedback \o <<Msg("error", <<"No results found. Suggestions:">>)>>
                \o [k \in 1..Len(suggestions) |-> Msg("write", <<suggestions[k]>>)]
    /\ ret' = ReturnedNone
    /\ pc_search' = "done"
    /\ UNCHANGED <<selected_categories, categories_to_search, cat_i, all_results,
                   successful_categories, failed_categories, calls>>
    /\ UNCHANGED not_search

\* mutant: the merged results are returned as discovered, without the sort
ReturnResultsUnsorted ==
    /\ LoopOver
    /\ all_results # <<>>
    /\ ui' = ui \o Feedback
    /\ ret' = SearchResponse(all_results)
    /\ pc_search' = "done"
    /\ UNCHANGED <<selected_categories, categories_to_search, cat_i, all_results,
                   successful_categories, failed_categories, calls>>
    /\ UNCHANGED not_search

\* lines 82-86, 102-105: sort the merged results in place and return them
ReturnResults ==
    /\ LoopOver
    /\ all_results # <<>>
    /\ ui' = ui \o Feedback
    /\ all_results' = SortByScore(all_results)
    /\ ret' = SearchResponse(all_results')
    /\ pc_search' = "done"
    /\ UNCHANGED <<selected_categories, categories_to_search, cat_i,
                   successful_categories, failed_categories, calls>>
    /\ UNCHANGED not_search

NextSearch ==
    \/ ResolveCategories
    \/ ResolveRaises
    \/ CategorySucceeds
    \/ CategoryEmpty
    \/ CategoryRaises
    \/ ReturnNoResults
    \/ ReturnResults

IdleSearch ==
    /\ selected_categories = None
    /\ categories_to_search = <<>>
    /\ cat_i = 0
    /\ all_results = <<>>
    /\ successful_categories = <<>>
    /\ failed_categories = <<>>
    /\ calls = <<>>
    /\ ui = <<>>
    /\ ret = NotReturned
    /\ pc_search = "idle"

(***************************************************************************)
(* escape_markdown_characters and prepare_content_for_gpt                  *)
(***************************************************************************)
\* mutant: only the first of markdown_chars is escaped
escape_underscore_only(text) == Replace(text, <<"_">>, <<"\\", "_">>)

\* lines 137-142: for char in ['_', '*']: text = text.replace(char, '\\' + char)
escape_markdown_characters(text) ==
    Replace(Replace(text, <<"_">>, <<"\\", "_">>), <<"*">>, <<"\\", "*">>)

\* line 146: the instruction line the content starts with
instruction ==
    <<"C", "r", "e", "a", "t", "e", " ", "a", " ", "m", "a", "r", "k", "d", "o", "w", "n", " ",
      "a", "r", "t", "i", "c", "l", "e", " ", "a", "b", "o", "u", "t", " ", "t", "h", "e", " ",
      "r", "e", "s", "e", "a", "r", "c", "h", "e", "d", " ", "t", "o", "p", "i", "c", ",", " ",
      "u", "s", "i", "n", "g", " ", "t", "h", "e", " ", "r", "e", "l", "e", "v", "a", "n", "t",
      " ", "U", "R", "L", "s", " ", "a", "s", " ", "c", "i", "t", "a", "t", "i", "o", "n", "s",
      " ", "w", "h", "e", "r", "e", " ", "n", "e", "c", "e", "s", "s", "a", "r", "y", ":",
      "\n", "\n">>

str_Title_sp ==
    <<"T", "i", "t", "l", "e", ":", " ">>
str_nl_URL_sp ==
    <<"\n", "U", "R", "L", ":", " ">>
str_nl_Text_sp ==
    <<"\n", "T", "e", "x", "t", ":", " ">>
str_nl_nl ==
    <<"\n", "\n">>

\* one serialized result, as far as prepare_content_for_gpt reads it (lines 116-125)
Item(t, url, text) == [title |-> t, url |-> url, text |-> text]

\* results to choose from: titles and texts with and without '_' and '*', a url
\* holding both, and a result whose title, or whose text, is None
ItemPool ==
    { Item(Some(<<"a", "_", "*">>), <<"u", "_", "1">>, Some(<<"x">>)),
      Item(Some(<<"b">>), <<"u", "*", "2">>, Some(<<"*", "y", "_", "_">>)),
      Item(None, <<"u", "3">>, Some(<<"z">>)),
      Item(Some(<<"c">>), <<"u", "4">>, None) }

InitPrompt ==
    /\ serialized_results \in SeqsOf(ItemPool, 1, MaxResultsLen)
    /\ selected_indices \in SeqsOf(1..(MaxResultsLen + 1), 0, MaxPicked)
    /\ content = instruction
    /\ item_i = 1
    /\ pc_prompt = "loop"

IdlePrompt ==
    /\ serialized_results = <<>>
    /\ selected_indices = <<>>
    /\ content = <<>>
    /\ item_i = 0
    /\ pc_prompt = "idle"

InItems == pc_prompt = "loop" /\ item_i <= Len(serialized_results)

\* lines 147-148: position i is not in selected_indices
SkipItem ==
    /\ InItems
    /\ item_i \notin Range(selected_indices)
    /\ item_i' = item_i + 1
    /\ UNCHANGED <<serialized_results, selected_indices, content, pc_prompt>>
    /\ UNCHANGED not_prompt

\* mutant: the block is put in front of the content instead of after it
AppendItemInFront ==
    /\ InItems
    /\ item_i \in Range(selected_indices)
    /\ LET item == serialized_results[item_i]
       IN  /\ ~IsNone(item.title) /\ ~IsNone(item.text)
           /\ content' = str_Title_sp \o escape_markdown_characters(Val(item.title))
                          \o str_nl_URL_sp \o item.url
                          \o str_nl_Text_sp \o escape_markdown_characters(Val(item.text))
                          \o str_nl_nl \o content
    /\ item_i' = item_i + 1
    /\ UNCHANGED <<serialized_results, selected_indices, pc_prompt>>
    /\ UNCHANGED not_prompt

\* lines 148-152: position i is selected; its block is appended
AppendItem ==
    /\ InItems
    /\ item_i \in Range(selected_indices)
    /\ LET item == serialized_results[item_i]
       IN  /\ ~IsNone(item.title) /\ ~IsNone(item.text)
           /\ content' = content
                          \o str_Title_sp \o escape_markdown_characters(Val(item.title))
                          \o str_nl_URL_sp \o item.url
                          \o str_nl_Text_sp \o escape_markdown_characters(Val(item.text))
                          \o str_nl_nl
    /\ item_i' = item_i + 1
    /\ UNCHANGED <<serialized_results, selected_indices, pc_prompt>>
    /\ UNCHANGED not_prompt

\* lines 150-151, 141: None.replace raises AttributeError, which nothing catches
EscapeRaises ==
    /\ InItems
    /\ item_i \in Range(selected_indices)
    /\ LET item == serialized_results[item_i]
       IN  IsNone(item.title) \/ IsNone(item.text)
    /\ pc_prompt' = "raised"
    /\ UNCHANGED <<serialized_results, selected_indices, content, item_i>>
    /\ UNCHANGED not_prompt

\* line 153: return content
ReturnContent ==
    /\ pc_prompt = "loop"
    /\ item_i > Len(serialized_results)
    /\ pc_prompt' = "done"
    /\ UNCHANGED <<serialized_results, selected_indices, content, item_i>>
    /\ UNCHANGED not_prompt

NextPrompt ==
    \/ SkipItem
    \/ AppendItem
    \/ EscapeRaises
    \/ ReturnContent

\* escape_markdown_characters called on its own (lines 137-142), with every title
\* or text of '_', '*', backslash and an ordinary character up to MaxTextLen
TextAlphabet == {"_", "*", "\\", "a"}

InitEscape ==
    /\ escape_arg \in SeqsOf(TextAlphabet, 0, MaxTextLen)
    /\ escaped_text = <<>>
    /\ pc_escape = "call"

IdleEscape ==
    /\ escape_arg = <<>>
    /\ escaped_text = <<>>
    /\ pc_escape = "idle"

\* lines 139-142: the loop over markdown_chars, then return text
EscapeText ==
    /\ pc_escape = "call"
    /\ escaped_text' = escape_markdown_characters(escape_arg)
    /\ pc_escape' = "done"
    /\ UNCHANGED escape_arg
    /\ UNCHANGED not_escape

NextEscape == EscapeText

(***************************************************************************)
(* extract_metadata                                                        *)
(***************************************************************************)
str_nl == <<"\n">>
str_title_lc == <<"t", "i", "t", "l", "e", ":">>
str_Title == <<"T", "i", "t", "l", "e", ":">>
str_meta_description_lc ==
    <<"m", "e", "t", "a", " ", "d", "e", "s", "c", "r", "i", "p", "t", "i", "o", "n", ":">>
str_Meta_Description ==
    <<"M", "e", "t", "a", " ", "D", "e", "s", "c", "r", "i", "p", "t", "i", "o", "n", ":">>
Quote == {"\""}

IsTitleLine(line) == StartsWith(Lower(line), str_title_lc)
IsMetaLine(line) == ~IsTitleLine(line) /\ StartsWith(Lower(line), str_meta_description_lc)

\* line 259: line.replace("Title:", "").strip().strip('"')
TitleOf(line) == StripChars(Strip(Replace(line, str_Title, <<>>)), Quote)
\* line 261: line.replace("Meta Description:", "").strip().strip('"')
MetaOf(line) == StripChars(Strip(Replace(line, str_Meta_Description, <<>>)), Quote)

\* lines 257-261: one pass of the loop body over a line, before the break test
ScanLine(raw, t, m) ==
    LET line == Strip(raw)
    IN  IF IsTitleLine(line) THEN [title |-> TitleOf(line), meta |-> m]
        ELSE IF IsMetaLine(line) THEN [title |-> t, meta |-> MetaOf(line)]
        ELSE [title |-> t, meta |-> m]

\* lines 256-266: the loop from line i on, with the break of lines 263-264
RECURSIVE ScanFrom(_, _, _, _)
ScanFrom(ls, n, t, m) ==
    IF n > Len(ls) THEN [title |-> t, meta |-> m]
    ELSE LET r == ScanLine(ls[n], t, m)
         IN  IF r.title # <<>> /\ r.meta # <<>> THEN r
             ELSE ScanFrom(ls, n + 1, r.title, r.meta)

\* lines 251-266, as a function of the text
extract_metadata(text) == ScanFrom(Split(text, str_nl), 1, <<>>, <<>>)

\* lines of the texts extract_metadata is run on
MetaLinePool ==
    { <<"T", "i", "t", "l", "e", ":", " ", "A">>,
      <<"t", "i", "t", "l", "e", ":", " ", "B">>,
      <<"T", "i", "t", "l", "e", ":", " ", "C">>,
      <<"T", "i", "t", "l", "e", ":">>,
      <<"M", "e", "t", "a", " ", "D", "e", "s", "c", "r", "i", "p", "t", "i", "o", "n", ":", " ",
  "M">>,
      <<"m", "e", "t", "a", " ", "d", "e", "s", "c", "r", "i", "p", "t", "i", "o", "n", ":", " ",
  "N">>,
      <<" ", "M", "e", "t", "a", " ", "D", "e", "s", "c", "r", "i", "p", "t", "i", "o", "n", ":",
  " ", "\"", "P", "\"", " ">>,
      <<"x">> }

InitExtract ==
    /\ markdown_text \in {Join(ls, str_nl) : ls \in SeqsOf(MetaLinePool, 1, MaxMetaLines)}
    /\ em_lines = Split(markdown_text, str_nl)
    /\ em_i = 1
    /\ em_title = <<>>
    /\ em_meta = <<>>
    /\ pc_extract = "loop"

IdleExtract ==
    /\ markdown_text = <<>>
    /\ em_lines = <<>>
    /\ em_i = 0
    /\ em_title = <<>>
    /\ em_meta = <<>>
    /\ pc_extract = "idle"

InLines == pc_extract = "loop" /\ em_i <= Len(em_lines)

\* lines 256-264: one iteration; the loop is left once both fields are non-empty
ScanStep ==
    LET r == ScanLine(em_lines[em_i], em_title, em_meta)
    IN  /\ em_title' = r.title
        /\ em_meta' = r.meta
        /\ em_i' = em_i + 1
        /\ pc_extract' = IF r.title # <<>> /\ r.meta # <<>> THEN "done" ELSE "loop"
        /\ UNCHANGED <<markdown_text, em_lines>>
        /\ UNCHANGED not_extract

\* lines 258-259
ScanTitleLine == InLines /\ IsTitleLine(Strip(em_lines[em_i])) /\ ScanStep
\* lines 260-261
ScanMetaLine == InLines /\ IsMetaLine(Strip(em_lines[em_i])) /\ ScanStep
\* lines 256-257, 263: a line with neither prefix
ScanOtherLine ==
    /\ InLines
    /\ ~IsTitleLine(Strip(em_lines[em_i]))
    /\ ~IsMetaLine(Strip(em_lines[em_i]))
    /\ ScanStep

\* line 266, reached at the end of the lines
ReturnMetadata ==
    /\ pc_extract = "loop"
    /\ em_i > Len(em_lines)
    /\ pc_extract' = "done"
    /\ UNCHANGED <<markdown_text, em_lines, em_i, em_title, em_meta>>
    /\ UNCHANGED not_extract

NextExtract ==
    \/ ScanTitleLine
    \/ ScanMetaLine
    \/ ScanOtherLine
    \/ ReturnMetadata

(***************************************************************************)
(* generate_article                                                        *)
(***************************************************************************)
str_Title_colon_sp == <<"T", "i", "t", "l", "e", ":", " ">>
str_nl_Meta_Description_sp ==
    <<"\n", "M", "e", "t", "a", " ", "D", "e", "s", "c", "r", "i", "p", "t", "i", "o", "n", ":",
  " ">>
str_nl_hash_sp == <<"\n", "#", " ">>

\* lines of the article the chat backend may write
ArticleLinePool ==
    { <<"T", "i", "t", "l", "e", ":", " ", "T">>,
      <<"M", "e", "t", "a", " ", "D", "e", "s", "c", "r", "i", "p", "t", "i", "o", "n", ":", " ",
  "M">>,
      <<"#", " ", "T">>,
      <<"B", "o", "d", "y">>,
      <<>> }

\* lines of the chat backend's answer to the metadata request
AnswerLinePool ==
    { <<"T", "i", "t", "l", "e", ":", " ", "X">>,
      <<"M", "e", "t", "a", " ", "D", "e", "s", "c", "r", "i", "p", "t", "i", "o", "n", ":", " ",
  "Y">>,
      <<"S", "o", "r", "r", "y">> }

\* data['choices'][0]['message']['content'] of a successful first call
Articles == {Join(ls, str_nl) : ls \in SeqsOf(ArticleLinePool, 1, MaxArticleLines)}
\* the same of the follow-up call
Answers == {Join(ls, str_nl) : ls \in SeqsOf(AnswerLinePool, 1, MaxAnswerLines)}

\* one client.post("/chat/completions") and how it ended: "ok" with the text of
\* the answer, "http_error" (raise_for_status raised), "error" (anything else
\* raised: the transport, response.json(), a body without 'choices')
ChatCall(purpose, outcome, text) == [purpose |-> purpose, outcome |-> outcome, text |-> text]

\* what generate_article returns: (article_content, title, meta_description), or
\* (None, None, None)
Draft(article, t, m) == [kind |-> "draft", article |-> article, title |-> t, meta |-> m]
NoDraft == [kind |-> "None", article |-> <<>>, title |-> <<>>, meta |-> <<>>]
NotGenerated == [kind |-> "running", article |-> <<>>, title |-> <<>>, meta |-> <<>>]

InitGenerate ==
    /\ chat_calls = <<>>
    /\ article_content = <<>>
    /\ title = <<>>
    /\ meta_description = <<>>
    /\ generated = NotGenerated
    /\ pc_generate = "start"

IdleGenerate ==
    /\ chat_calls = <<>>
    /\ article_content = <<>>
    /\ title = <<>>
    /\ meta_description = <<>>
    /\ generated = NotGenerated
    /\ pc_generate = "idle"

\* lines 212-213, 244-245, 248: the backend reports an HTTP error
FirstCallHttpError ==
    /\ pc_generate = "start"
    /\ chat_calls' = Append(chat_calls, ChatCall("article", "http_error", <<>>))
    /\ generated' = NoDraft
    /\ pc_generate' = "done"
    /\ UNCHANGED <<article_content, title, meta_description>>
    /\ UNCHANGED not_generate

\* lines 212-217, 246-248: the call, or reading its answer, raises
FirstCallRaises ==
    /\ pc_generate = "start"
    /\ chat_calls' = Append(chat_calls, ChatCall("article", "error", <<>>))
    /\ generated' = NoDraft
    /\ pc_generate' = "done"
    /\ UNCHANGED <<article_content, title, meta_description>>
    /\ UNCHANGED not_generate

\* mutant: the metadata is asked for again although the article has both fields
FirstCallCompleteAsksAgain ==
    /\ pc_generate = "start"
    /\ \E text \in Articles :
          LET found == extract_metadata(text)
          IN  /\ found.title # <<>> /\ found.meta # <<>>
              /\ chat_calls' = Append(chat_calls, ChatCall("article", "ok", text))
              /\ article_content' = text
              /\ title' = found.title
              /\ meta_description' = found.meta
    /\ pc_generate' = "follow_up"
    /\ UNCHANGED generated
    /\ UNCHANGED not_generate

\* lines 212-220, 243: the article has a title and a meta description
FirstCallComplete ==
    /\ pc_generate = "start"
    /\ \E text \in Articles :
          LET found == extract_metadata(text)
          IN  /\ found.title # <<>> /\ found.meta # <<>>
              /\ chat_calls' = Append(chat_calls, ChatCall("article", "ok", text))
              /\ article_content' = text
              /\ title' = found.title
              /\ meta_description' = found.meta
              /\ generated' = Draft(text, found.title, found.meta)
    /\ pc_generate' = "done"
    /\ UNCHANGED not_generate

\* lines 212-222: the article lacks the title or the meta description
FirstCallIncomplete ==
    /\ pc_generate = "start"
    /\ \E text \in Articles :
          LET found == extract_metadata(text)
          IN  /\ found.title = <<>> \/ found.meta = <<>>
              /\ chat_calls' = Append(chat_calls, ChatCall("article", "ok", text))
              /\ article_content' = text
              /\ title' = found.title
              /\ meta_description' = found.meta
    /\ pc_generate' = "follow_up"
    /\ UNCHANGED generated
    /\ UNCHANGED not_generate

\* lines 223-243: the follow-up call answers; the missing fields are taken from it
\* and the header is put in front of the article
FollowUpAnswers ==
    /\ pc_generate = "follow_up"
    /\ \E answer \in Answers :
          LET new == extract_metadata(answer)
              t == IF title = <<>> THEN new.title ELSE title
              m == IF meta_description = <<>> THEN new.meta ELSE meta_description
              article == str_Title_colon_sp \o t \o str_nl_Meta_Description_sp \o m
                         \o str_nl_hash_sp \o t \o str_nl_nl \o article_content
          IN  /\ chat_calls' = Append(chat_calls, ChatCall("metadata", "ok", answer))
              /\ title' = t
              /\ meta_description' = m
              /\ article_content' = article
              /\ generated' = Draft(article, t, m)
    /\ pc_generate' = "done"
    /\ UNCHANGED not_generate

\* lines 223-232, 246-248: the follow-up call raises, or its answer has no
\* 'choices' (there is no raise_for_status here, so an HTTP error body gets to
\* the subscript); the handler of the whole function returns (None, None, None)
FollowUpRaises ==
    /\ pc_generate = "follow_up"
    /\ chat_calls' = Append(chat_calls, ChatCall("metadata", "error", <<>>))
    /\ generated' = NoDraft
    /\ pc_generate' = "done"
    /\ UNCHANGED <<article_content, title, meta_description>>
    /\ UNCHANGED not_generate

NextGenerate ==
    \/ FirstCallHttpError
    \/ FirstCallRaises
    \/ FirstCallComplete
    \/ FirstCallIncomplete
    \/ FollowUpAnswers
    \/ FollowUpRaises

(***************************************************************************)
(* convert_to_wordpress_blocks                                             *)
(***************************************************************************)
str_Excerpt == <<"E", "x", "c", "e", "r", "p", "t", ":">>
str_Image_Prompt == <<"I", "m", "a", "g", "e", " ", "P", "r", "o", "m", "p", "t", ":">>
str_hash_sp == <<"#", " ">>
str_hash_hash_sp == <<"#", "#", " ">>
str_sp == <<" ">>
str_Source_open == <<"(", "S", "o", "u", "r", "c", "e", ":", " ">>

\* the Thai word of the citation marker ('(' + word + ': '), which the code only
\* ever handles whole: one character of the model
ThaiRef == "AANG-ING"
str_Ref_open == <<"(", ThaiRef, ":", " ">>
str_Ref_colon == <<ThaiRef, ":">>

\* the three pieces of the anchor the code writes, which it only ever handles
\* whole: one character of the model each
\*   '<a class="general-link" href="'   '" target="_blank" rel="noopener">'   '</a>'
AnchorOpen == <<"<a class=\"general-link\" href=\"">>
AnchorMid == <<"\" target=\"_blank\" rel=\"noopener\">">>
AnchorClose == <<"</a>">>

\* lines 360-363: replace_link
replace_link(text, url) == AnchorOpen \o url \o AnchorMid \o text \o AnchorClose

\* the leftmost match of \[(.*?)\]\((.*?)\) in s: the first '[' with a '](' after
\* it and a ')' after that; the text runs to the first such '](' and the url to
\* the first ')' behind it
LinkMatch(s) ==
    LET Starts == {a \in 1..Len(s) :
                      /\ s[a] = "["
                      /\ \E j \in (a + 1)..(Len(s) - 1) :
                            /\ s[j] = "]" /\ s[j + 1] = "("
                            /\ \E k \in (j + 2)..Len(s) : s[k] = ")"}
        a == CHOOSE x \in Starts : \A y \in Starts : x <= y
        Mids == {j \in (a + 1)..(Len(s) - 1) : s[j] = "]" /\ s[j + 1] = "("}
        j == CHOOSE x \in Mids : \A y \in Mids : x <= y
        Ends == {k \in (j + 2)..Len(s) : s[k] = ")"}
        k == CHOOSE x \in Ends : \A y \in Ends : x <= y
    IN  IF Starts = {} THEN [found |-> FALSE, from |-> 0, mid |-> 0, to |-> 0]
        ELSE [found |-> TRUE, from |-> a, mid |-> j, to |-> k]

\* lines 366, 392, 418: re.sub(r'\[(.*?)\]\((.*?)\)', replace_link, para_content)
RECURSIVE SubLinks(_)
SubLinks(s) ==
    LET m == LinkMatch(s)
    IN  IF ~m.found THEN s
        ELSE SubSeq(s, 1, m.from - 1)
             \o replace_link(SubSeq(s, m.from + 1, m.mid - 1), SubSeq(s, m.mid + 2, m.to - 1))
             \o SubLinks(Drop(s, m.to))

\* lines 372-376: close the citation link
CloseCitation(para) ==
    IF Contains(para, str_Ref_colon) /\ ~EndsWith(para, AnchorClose \o <<")">>)
    THEN LET parts == Split(para, AnchorMid)
         IN  IF Len(parts) > 1
             THEN parts[1] \o AnchorMid \o RStripChars(parts[2], {")"}) \o AnchorClose \o <<")">>
             ELSE para
    ELSE para

\* lines 356-376 (and again 384-399, 410-425): the text of a flushed paragraph
FormatParagraph(paragraph) ==
    LET joined == Join(paragraph, str_sp)
        linked == SubLinks(joined)
        sourced == Replace(linked, str_Source_open, str_Ref_open \o AnchorOpen)
        cited == Replace(sourced, str_Ref_open, str_Ref_open \o AnchorOpen)
    IN  CloseCitation(cited)

\* a block of the output: the fixed wp:paragraph or wp:heading wrapper of its kind
\* around the text
Block(kind, text) == [kind |-> kind, text |-> text]

\* lines 378, 401, 427
ParagraphBlock(paragraph) == Block("paragraph", FormatParagraph(paragraph))

\* lines of the documents convert_to_wordpress_blocks is run on
DocLinePool ==
    { <<"#", " ", "T">>,
      <<"#", "#", " ", "H">>,
      <<>>,
      <<"a">>,
      <<"b">>,
      <<"I", "m", "a", "g", "e", " ", "P", "r", "o", "m", "p", "t", ":", " ", "p">>,
      <<"T", "i", "t", "l", "e", ":", " ", "F", "o", "o">>,
      <<"M", "e", "t", "a", " ", "D", "e", "s", "c", "r", "i", "p", "t", "i", "o", "n", ":", " ",
  "B", "a", "r">>,
      <<"E", "x", "c", "e", "r", "p", "t", ":", " ", "E">> }

\* "# T\n\nBody line\n\n## H2\n\nMore body\n"
ExampleHeadings ==
    << <<"#", " ", "T">>, <<>>,
       <<"B", "o", "d", "y", " ", "l", "i", "n", "e">>, <<>>,
       <<"#", "#", " ", "H", "2">>, <<>>,
       <<"M", "o", "r", "e", " ", "b", "o", "d", "y">>, <<>> >>

\* "Title: Foo\nMeta Description: Bar\n\nHello [link](http://x.test) world\n"
ExampleMetadata ==
    << <<"T", "i", "t", "l", "e", ":", " ", "F", "o", "o">>,
       <<"M", "e", "t", "a", " ", "D", "e", "s", "c", "r", "i", "p", "t", "i", "o", "n", ":", " ",
  "B", "a", "r">>,
       <<>>,
       <<"H", "e", "l", "l", "o", " ", "[", "l", "i", "n", "k", "]", "(", "h", "t", "t", "p", ":",
  "/", "/", "x", ".", "t", "e", "s", "t", ")", " ", "w", "o", "r", "l", "d">>,
       <<>> >>

\* what a paragraph line with links and citations is put together from: plain
\* words, two markdown links, a citation in either marker, and a citation whose
\* source is itself a markdown link
ParagraphPieces ==
    { <<"x">>,
      <<"y">>,
      <<"[", "t", "]", "(", "u", ")">>,
      <<"[", "v", "]", "(", "w", ")">>,
      <<"(", "S", "o", "u", "r", "c", "e", ":", " ", "s", ")">>,
      <<"(", ThaiRef, ":", " ", "r", ")">>,
      <<"(", "S", "o", "u", "r", "c", "e", ":", " ", "[", "n", "]", "(", "z", ")", ")">> }

\* the paragraph lines of up to MaxPieces pieces, a space between two pieces
CitationLines == {Join(ps, str_sp) : ps \in SeqsOf(ParagraphPieces, 1, MaxPieces)}

\* a paragraph line alone, before a blank line, and before a '## ' heading: the
\* three places where a paragraph is flushed
CitationDocuments ==
    UNION {{<<l>>, <<l, <<>>>>, <<l, <<"#", "#", " ", "H">>>>} : l \in CitationLines}

Documents ==
    {Join(ls, str_nl) : ls \in SeqsOf(DocLinePool, 1, MaxDocLines)
                              \cup {ExampleHeadings, ExampleMetadata}
                              \cup CitationDocuments}

NoMetadata == [title |-> <<>>, meta_description |-> <<>>, excerpt |-> <<>>]

\* lines 335-340
InitConvert ==
    /\ \E markdown_content \in Documents : lines = Split(markdown_content, str_nl)
    /\ i = 1
    /\ wp_blocks = <<>>
    /\ current_paragraph = <<>>
    /\ metadata = NoMetadata
    /\ output = <<>>
    /\ pc_convert = "loop"
    /\ paragraph_lines = {}
    /\ block_lines = <<>>

IdleConvert ==
    /\ lines = <<>>
    /\ i = 0
    /\ wp_blocks = <<>>
    /\ current_paragraph = <<>>
    /\ metadata = NoMetadata
    /\ output = <<>>
    /\ pc_convert = "idle"
    /\ paragraph_lines = {}
    /\ block_lines = <<>>

\* line 342
Line == Strip(lines[i])
AtLine == pc_convert = "loop" /\ i <= Len(lines)

IsTitle(line) == StartsWith(line, str_Title)
IsMetaDescription(line) == ~IsTitle(line) /\ StartsWith(line, str_Meta_Description)
IsExcerpt(line) ==
    ~IsTitle(line) /\ ~IsMetaDescription(line) /\ StartsWith(line, str_Excerpt)
IsMetadataLine(line) == IsTitle(line) \/ IsMetaDescription(line) \/ IsExcerpt(line)
IsImagePrompt(line) == ~IsMetadataLine(line) /\ StartsWith(line, str_Image_Prompt)
IsBlank(line) == line = <<>>
IsHeading1(line) ==
    ~IsMetadataLine(line) /\ ~IsImagePrompt(line) /\ StartsWith(line, str_hash_sp)
IsHeading2(line) ==
    ~IsMetadataLine(line) /\ ~IsImagePrompt(line) /\ StartsWith(line, str_hash_hash_sp)
IsText(line) ==
    /\ ~IsMetadataLine(line) /\ ~IsImagePrompt(line) /\ ~IsBlank(line)
    /\ ~IsHeading1(line) /\ ~IsHeading2(line)

\* lines 345-346
TitleLine ==
    /\ AtLine /\ IsTitle(Line)
    /\ metadata' = [metadata EXCEPT !.title = Strip(Drop(Line, 6))]
    /\ i' = i + 1
    /\ UNCHANGED <<lines, wp_blocks, current_paragraph, output, pc_convert,
                   paragraph_lines, block_lines>>
    /\ UNCHANGED not_convert

\* lines 347-348
MetaDescriptionLine ==
    /\ AtLine /\ IsMetaDescription(Line)
    /\ metadata' = [metadata EXCEPT !.meta_description = Strip(Drop(Line, 16))]
    /\ i' = i + 1
    /\ UNCHANGED <<lines, wp_blocks, current_paragraph, output, pc_convert,
                   paragraph_lines, block_lines>>
    /\ UNCHANGED not_convert

\* lines 349-350
ExcerptLine ==
    /\ AtLine /\ IsExcerpt(Line)
    /\ metadata' = [metadata EXCEPT !.excerpt = Strip(Drop(Line, 8))]
    /\ i' = i + 1
    /\ UNCHANGED <<lines, wp_blocks, current_paragraph, output, pc_convert,
                   paragraph_lines, block_lines>>
    /\ UNCHANGED not_convert

\* lines 351-352
ImagePromptLine ==
    /\ AtLine /\ IsImagePrompt(Line)
    /\ wp_blocks' = Append(wp_blocks, Block("image_prompt", Strip(Drop(Line, 13))))
    /\ block_lines' = Append(block_lines, {i})
    /\ i' = i + 1
    /\ UNCHANGED <<lines, current_paragraph, metadata, output, pc_convert, paragraph_lines>>
    /\ UNCHANGED not_convert

\* lines 353-379: an empty line closes the paragraph, if there is one
BlankLine ==
    /\ AtLine /\ IsBlank(Line)
    /\ IF current_paragraph # <<>>
       THEN /\ wp_blocks' = Append(wp_blocks, ParagraphBlock(current_paragraph))
            /\ block_lines' = Append(block_lines, paragraph_lines)
            /\ current_paragraph' = <<>>
            /\ paragraph_lines' = {}
       ELSE UNCHANGED <<wp_blocks, block_lines, current_paragraph, paragraph_lines>>
    /\ i' = i + 1
    /\ UNCHANGED <<lines, metadata, output, pc_convert>>
    /\ UNCHANGED not_convert

\* lines 380-381: the heading is appended; the paragraph stays open
Heading1Line ==
    /\ AtLine /\ IsHeading1(Line)
    /\ wp_blocks' = Append(wp_blocks, Block("heading1", Drop(Line, 2)))
    /\ block_lines' = Append(block_lines, {i})
    /\ i' = i + 1
    /\ UNCHANGED <<lines, current_paragraph, metadata, output, pc_convert, paragraph_lines>>
    /\ UNCHANGED not_convert

\* lines 382-403: the paragraph, if there is one, is closed, then the heading appended
Heading2Line ==
    /\ AtLine /\ IsHeading2(Line)
    /\ LET heading == Block("heading2", Drop(Line, 3))
       IN  IF current_paragraph # <<>>
           THEN /\ wp_blocks' = wp_blocks \o <<ParagraphBlock(current_paragraph), heading>>
                /\ block_lines' = block_lines \o <<paragraph_lines, {i}>>
           ELSE /\ wp_blocks' = Append(wp_blocks, heading)
                /\ block_lines' = Append(block_lines, {i})
    /\ current_paragraph' = <<>>
    /\ paragraph_lines' = {}
    /\ i' = i + 1
    /\ UNCHANGED <<lines, metadata, output, pc_convert>>
    /\ UNCHANGED not_convert

\* lines 404-405
TextLine ==
    /\ AtLine /\ IsText(Line)
    /\ current_paragraph' = Append(current_paragraph, Line)
    /\ paragraph_lines' = paragraph_lines \cup {i}
    /\ i' = i + 1
    /\ UNCHANGED <<lines, wp_blocks, metadata, output, pc_convert, block_lines>>
    /\ UNCHANGED not_convert

\* lines 429-436
MetadataBlocks ==
    (IF metadata.title # <<>> THEN <<Block("meta_title", metadata.title)>> ELSE <<>>)
    \o (IF metadata.meta_description # <<>>
        THEN <<Block("meta_description", metadata.meta_description)>> ELSE <<>>)
    \o (IF metadata.excerpt # <<>> THEN <<Block("meta_excerpt", metadata.excerpt)>> ELSE <<>>)

\* lines 408-438: close the last paragraph, put the metadata blocks in front, return
ReturnBlocks ==
    /\ pc_convert = "loop" /\ i > Len(lines)
    /\ IF current_paragraph # <<>>
       THEN /\ wp_blocks' = Append(wp_blocks, ParagraphBlock(current_paragraph))
            /\ block_lines' = Append(block_lines, paragraph_lines)
       ELSE UNCHANGED <<wp_blocks, block_lines>>
    /\ output' = MetadataBlocks \o wp_blocks'
    /\ pc_convert' = "done"
    /\ UNCHANGED <<lines, i, current_paragraph, metadata, paragraph_lines>>
    /\ UNCHANGED not_convert

NextConvert ==
    \/ TitleLine
    \/ MetaDescriptionLine
    \/ ExcerptLine
    \/ ImagePromptLine
    \/ BlankLine
    \/ Heading1Line
    \/ Heading2Line
    \/ TextLine
    \/ ReturnBlocks

(***************************************************************************)
(* main: one action per run of the script, from the top to st.stop() or    *)
(* to the end (lines 441-676).                                             *)
(***************************************************************************)
\* what perform_web_research may bring back: results with and without a title or
\* a text (ItemPool), one with an empty title and no text, which the source list
\* leaves out, and one with an empty title and a text
SearchedItems ==
    ItemPool \cup { Item(Some(<<>>), <<"u", "5">>, None),
                    Item(Some(<<>>), <<"u", "6">>, Some(<<"w">>)) }

\* line 552: None, or the non-empty results of lines 102-105
SearchOutcomes == {None} \cup {Some(rs) : rs \in SeqsOf(SearchedItems, 1, MaxStoredResults)}

\* line 132: result['title'][:30] raises TypeError on a title that is None
SerializeRaises(rs) == \E k \in 1..Len(rs) : rs[k].title = None

Truthy(o) == o \notin {None, Some(<<>>)}
\* line 592: res.get('text') or res.get('title')
IsListed(res) == Truthy(res.text) \/ Truthy(res.title)

\* lines 588-613: the positions, from 1, of the listed results whose checkbox
\* is checked, in the order of the loop
RECURSIVE SelectedFrom(_, _, _)
SelectedFrom(rs, unchecked, from) ==
    IF from > Len(rs) THEN <<>>
    ELSE (IF IsListed(rs[from]) /\ from \notin unchecked THEN <<from>> ELSE <<>>)
         \o SelectedFrom(rs, unchecked, from + 1)

\* the checkboxes a run draws: a checkbox that a run does not draw loses its state
\* and is checked again (value=True) the next time it is drawn (line 607)
Drawn(rs) == {k \in 1..Len(rs) : IsListed(rs[k])}

\* lines 443-446
InitMain ==
    /\ search_performed = FALSE
    /\ search_results = None
    /\ source_unchecked = {}
    /\ pc_main = "start"
    /\ prepare_args = None

IdleMain ==
    /\ search_performed = FALSE
    /\ search_results = None
    /\ source_unchecked = {}
    /\ pc_main = "idle"
    /\ prepare_args = None

\* lines 580-620 in a run without a click on 'Generate Article': where the run ends
ListingEnds(performed, stored, unchecked) ==
    IF ~(performed /\ stored # None) THEN "nothing"
    ELSE IF Val(stored) = <<>> THEN "no_results"
    ELSE IF SelectedFrom(Val(stored), unchecked, 1) = <<>> THEN "no_sources"
    ELSE "listed"

\* lines 531-539: 'Perform Research' with an empty query, or with no category
ResearchRejected ==
    /\ pc_main' = "rejected"
    /\ source_unchecked' = {}
    /\ prepare_args' = None
    /\ UNCHANGED <<search_performed, search_results>>
    /\ UNCHANGED not_main

\* lines 541-553: perform_web_research returned None
ResearchReturnsNone ==
    /\ pc_main' = "no_search_result"
    /\ source_unchecked' = {}
    /\ prepare_args' = None
    /\ UNCHANGED <<search_performed, search_results>>
    /\ UNCHANGED not_main

\* lines 543, 555, 568-578: initialize_exa or serialize_search_results raised
ResearchRaises ==
    /\ \E raised_in \in {"initialize_exa", "serialize_search_results"} :
          raised_in = "serialize_search_results" =>
              \E outcome \in SearchOutcomes \ {None} : SerializeRaises(Val(outcome))
    /\ pc_main' = "research_error"
    /\ source_unchecked' = {}
    /\ prepare_args' = None
    /\ UNCHANGED <<search_performed, search_results>>
    /\ UNCHANGED not_main

\* lines 541-566, then 580-620 with no click on 'Generate Article': the results
\* are stored, search_performed is set, and the sources are listed
ResearchSucceeds ==
    /\ \E outcome \in SearchOutcomes \ {None} :
          /\ ~SerializeRaises(Val(outcome))
          /\ search_results' = outcome
    /\ search_performed' = TRUE
    /\ source_unchecked' = source_unchecked \cap Drawn(Val(search_results'))
    /\ pc_main' = ListingEnds(search_performed', search_results', source_unchecked')
    /\ prepare_args' = None
    /\ UNCHANGED not_main

\* a run that a widget other than the two buttons and the source checkboxes sets
\* off (lines 580-620)
RunAgain ==
    /\ source_unchecked' = IF search_performed /\ search_results # None
                           THEN source_unchecked \cap Drawn(Val(search_results))
                           ELSE {}
    /\ pc_main' = ListingEnds(search_performed, search_results, source_unchecked')
    /\ prepare_args' = None
    /\ UNCHANGED <<search_performed, search_results>>
    /\ UNCHANGED not_main

\* the user checks or unchecks the checkbox source_k that the last run drew
\* (line 607), which sets off a run (lines 580-620)
ToggleSource ==
    /\ pc_main \in {"listed", "no_sources", "prepare_raised", "generate"}
    /\ \E k \in Drawn(Val(search_results)) :
          source_unchecked' = IF k \in source_unchecked THEN source_unchecked \ {k}
                              ELSE source_unchecked \cup {k}
    /\ pc_main' = ListingEnds(search_performed, search_results, source_unchecked')
    /\ prepare_args' = None
    /\ UNCHANGED <<search_performed, search_results>>
    /\ UNCHANGED not_main

\* mutant: the run goes on to the button without the check of valid_sources
GenerateWithoutSources ==
    /\ search_performed /\ search_results # None
    /\ Val(search_results) # <<>>
    /\ LET selected == SelectedFrom(Val(search_results), source_unchecked, 1)
       IN  /\ \A k \in Range(selected) :
                 Val(search_results)[k].title # None /\ Val(search_results)[k].text # None
           /\ prepare_args' = Some([results |-> Val(search_results),
                                    selected_indices |-> selected])
    /\ pc_main' = "generate"
    /\ UNCHANGED <<search_performed, search_results, source_unchecked>>
    /\ UNCHANGED not_main

\* lines 580-628 with a click on 'Generate Article': the run passes the checks of
\* lines 581, 582 and 615, prepare_content_for_gpt returns the content and
\* generate_article is called with it
GenerateClicked ==
    /\ search_performed /\ search_results # None
    /\ Val(search_results) # <<>>
    /\ LET selected == SelectedFrom(Val(search_results), source_unchecked, 1)
       IN  /\ selected # <<>>
           /\ \A k \in Range(selected) :
                 Val(search_results)[k].title # None /\ Val(search_results)[k].text # None
           /\ prepare_args' = Some([results |-> Val(search_results),
                                    selected_indices |-> selected])
    /\ pc_main' = "generate"
    /\ UNCHANGED <<search_performed, search_results, source_unchecked>>
    /\ UNCHANGED not_main

\* lines 580-624 with a click on 'Generate Article': prepare_content_for_gpt
\* raises on a selected result without a text (lines 150-151), and the run ends
\* before generate_article
GeneratePrepareRaises ==
    /\ search_performed /\ search_results # None
    /\ Val(search_results) # <<>>
    /\ LET selected == SelectedFrom(Val(search_results), source_unchecked, 1)
       IN  /\ selected # <<>>
           /\ \E k \in Range(selected) :
                 Val(search_results)[k].title = None \/ Val(search_results)[k].text = None
           /\ prepare_args' = Some([results |-> Val(search_results),
                                    selected_indices |-> selected])
    /\ pc_main' = "prepare_raised"
    /\ UNCHANGED <<search_performed, search_results, source_unchecked>>
    /\ UNCHANGED not_main

NextMain ==
    \/ ResearchRejected
    \/ ResearchReturnsNone
    \/ ResearchRaises
    \/ ResearchSucceeds
    \/ RunAgain
    \/ ToggleSource
    \/ GenerateClicked
    \/ GeneratePrepareRaises

(***************************************************************************)
(* Specifications: one function at a time, the others idle.                *)
(***************************************************************************)
StartSearch == InitSearch /\ IdlePrompt /\ IdleEscape /\ IdleExtract /\ IdleGenerate /\ IdleConvert
    /\ IdleMain
SpecSearch == StartSearch /\ [][NextSearch]_vars

StartPrompt == IdleSearch /\ InitPrompt /\ IdleEscape /\ IdleExtract /\ IdleGenerate /\ IdleConvert
    /\ IdleMain
SpecPrompt == StartPrompt /\ [][NextPrompt]_vars

StartEscape == IdleSearch /\ IdlePrompt /\ InitEscape /\ IdleExtract /\ IdleGenerate /\ IdleConvert
    /\ IdleMain
SpecEscape == StartEscape /\ [][NextEscape]_vars

StartExtract == IdleSearch /\ IdlePrompt /\ IdleEscape /\ InitExtract /\ IdleGenerate /\ IdleConvert
    /\ IdleMain
SpecExtract == StartExtract /\ [][NextExtract]_vars

StartGenerate == IdleSearch /\ IdlePrompt /\ IdleEscape /\ IdleExtract /\ InitGenerate /\ IdleConvert
    /\ IdleMain
SpecGenerate == StartGenerate /\ [][NextGenerate]_vars

StartConvert == IdleSearch /\ IdlePrompt /\ IdleEscape /\ IdleExtract /\ IdleGenerate /\ InitConvert
    /\ IdleMain
SpecConvert == StartConvert /\ [][NextConvert]_vars

StartMain ==
    IdleSearch /\ IdlePrompt /\ IdleEscape /\ IdleExtract /\ IdleGenerate /\ IdleConvert
    /\ InitMain
SpecMain == StartMain /\ [][NextMain]_vars

(***************************************************************************)
(* Claims about perform_web_research.                                      *)
(***************************************************************************)
CallCategories == [k \in 1..Len(calls) |-> calls[k].category]
CallsOfKind(kinds) == SelectSeq(calls, LAMBDA c : c.kind \in kinds)
CategoriesOf(cs) == [k \in 1..Len(cs) |-> cs[k].category]
SearchDone == pc_search = "done" /\ categories_to_search # <<>>
Count(seq, x) == Cardinality({k \in 1..Len(seq) : seq[k] = x})

\* C1: every category of the resolved list is attempted exactly once, in order,
\* whatever the earlier categories did; at the end of the loop every category is
\* in exactly one of successful_categories and failed_categories, and the
\* function has returned (no per-category exception ended it early).
C1_EveryCategoryAttemptedOnce ==
    /\ pc_search = "loop" =>
          /\ CallCategories = SubSeq(categories_to_search, 1, cat_i - 1)
          /\ ret = NotReturned
    /\ SearchDone =>
          /\ CallCategories = categories_to_search
          /\ \A k \in 1..Len(categories_to_search) :
                LET c == categories_to_search[k]
                IN  Count(successful_categories, c) + Count(failed_categories, c) = 1
          /\ successful_categories = CategoriesOf(CallsOfKind({"ok"}))
          /\ failed_categories = CategoriesOf(CallsOfKind({"empty", "raise"}))
          /\ ret # NotReturned

\* a search in which a category raised, an earlier one came back empty and a later
\* one still succeeded
C1_Witness ==
    /\ SearchDone
    /\ \E a, b, c \in 1..Len(calls) :
          /\ a < b /\ b < c
          /\ calls[a].kind = "empty" /\ calls[b].kind = "raise" /\ calls[c].kind = "ok"

RECURSIVE Flatten(_)
Flatten(cs) == IF cs = <<>> THEN <<>> ELSE Head(cs).results \o Flatten(Tail(cs))

\* what the backend returned over the whole search, in discovery order
Discovered == Flatten(CallsOfKind({"ok"}))
EffectiveScore(r) == IF r.score = None THEN 0 ELSE r.score[1]
IndexIn(seq, r) == CHOOSE k \in 1..Len(seq) : seq[k] = r

\* C2: a returned result set holds exactly the results of the successful
\* categories (each once), in descending order of score with None as 0, and
\* results of equal effective score in the order they were discovered.
C2_MergedSortedStable ==
    (pc_search = "done" /\ ret.kind = "SearchResponse") =>
        LET rs == ret.results
            found == Discovered
        IN  /\ Len(rs) = Len(found)
            /\ Range(rs) = Range(found)
            /\ \A a, b \in 1..Len(rs) : a < b =>
                  /\ rs[a] # rs[b]
                  /\ EffectiveScore(rs[a]) >= EffectiveScore(rs[b])
                  /\ EffectiveScore(rs[a]) = EffectiveScore(rs[b])
                        => IndexIn(found, rs[a]) < IndexIn(found, rs[b])

\* a returned set where the sort moved a later discovery to the front and a None
\* score ties with a 0 score
C2_Witness ==
    /\ pc_search = "done" /\ ret.kind = "SearchResponse"
    /\ Len(ret.results) = 3
    /\ IndexIn(Discovered, ret.results[1]) = 3
    /\ \E a, b \in 1..3 : ret.results[a].score = None /\ ret.results[b].score = Some(0)

AllCallsFailed ==
    /\ SearchDone
    /\ \A k \in 1..Len(calls) : calls[k].kind \in {"empty", "raise"}

MsgsOfKind(kind) == SelectSeq(ui, LAMBDA m : m.kind = kind)

\* C3 as stated: when every category fails or is empty the search returns a
\* SearchExhausted value holding the failed categories and the suggestions.
C3_ReturnsSearchExhausted ==
    AllCallsFailed =>
        /\ ret.kind = "SearchExhausted"
        /\ "failed_categories" \in DOMAIN ret
        /\ "suggestions" \in DOMAIN ret

\* C3, amended: when every category fails or is empty the search returns None,
\* having shown one warning that lists exactly the failed categories (all the
\* categories attempted, in order) and the five suggestions, one st.write each.
C3_ReturnsNoneAndReportsFailures ==
    AllCallsFailed =>
        /\ ret = ReturnedNone
        /\ MsgsOfKind("warning") = <<Msg("warning", CallCategories)>>
        /\ MsgsOfKind("info") = <<>>
        /\ Len(MsgsOfKind("write")) = 5
        /\ \A k \in 1..5 : MsgsOfKind("write")[k].arg = <<suggestions[k]>>

\* a search of several categories, some raising and some empty, none successful
C3_Witness ==
    /\ AllCallsFailed
    /\ \E a, b \in 1..Len(calls) : calls[a].kind = "empty" /\ calls[b].kind = "raise"

EmptySelection == selected_categories = Some(<<>>)

\* C4 as stated: with an empty selected_categories no backend call is made and
\* the search returns a failure.
C4_EmptySelectionFailsFast ==
    EmptySelection =>
        /\ calls = <<>>
        /\ pc_search = "done" => ret = ReturnedNone

\* C4, amended: with an empty selected_categories the search defaults to the
\* full catalog: it calls the backend once for each of the six categories, and
\* returns None only when none of them gave results.
C4_EmptySelectionSearchesCatalog ==
    EmptySelection =>
        /\ pc_search # "start" => categories_to_search = all_categories
        /\ pc_search = "done" =>
              /\ CallCategories = all_categories
              /\ (ret = ReturnedNone) <=> (CallsOfKind({"ok"}) = <<>>)

\* an empty selection whose search returned results
C4_Witness ==
    /\ EmptySelection
    /\ pc_search = "done"
    /\ ret.kind = "SearchResponse"
    /\ Len(calls) = 6

\* lines 55-80 and 103 as a function of the successful responses in the order
\* they are merged: all_results.extend per response, then the sort by score
RankedResults(responses) == SortByScore(Flatten(responses))

\* the same responses, merged in every order
Reordered(cs) ==
    LET n == Len(cs)
    IN  {[k \in 1..n |-> cs[f[k]]] :
            f \in {g \in [1..n -> 1..n] : \A a, b \in 1..n : a # b => g[a] # g[b]}}

CategoryOf(r) == r.url[1]
ScoresOf(rs) == [k \in 1..Len(rs) |-> EffectiveScore(rs[k])]
CrossCategoryTie(rs) ==
    \E a, b \in 1..Len(rs) :
        /\ CategoryOf(rs[a]) # CategoryOf(rs[b])
        /\ EffectiveScore(rs[a]) = EffectiveScore(rs[b])

\* C12 as stated: whatever the order in which the categories are searched, the
\* same per-category responses give the same returned result sequence.
C12_SameSequenceForEveryOrder ==
    (pc_search = "done" /\ ret.kind = "SearchResponse") =>
        \A p \in Reordered(CallsOfKind({"ok"})) : RankedResults(p) = ret.results

\* C12, amended: whatever the order in which the categories are searched, the
\* same per-category responses give the same results with the same sequence of
\* effective scores, the results of one category in the same relative order;
\* the returned sequence itself is the same whenever no two results of
\* different categories have equal effective scores.
C12_OrderOnlyDecidesTies ==
    (pc_search = "done" /\ ret.kind = "SearchResponse") =>
        /\ RankedResults(CallsOfKind({"ok"})) = ret.results
        /\ \A p \in Reordered(CallsOfKind({"ok"})) :
              LET rr == RankedResults(p)
                  rs == ret.results
              IN  /\ Len(rr) = Len(rs)
                  /\ Range(rr) = Range(rs)
                  /\ ScoresOf(rr) = ScoresOf(rs)
                  /\ \A a, b \in 1..Len(rs) :
                        (a < b /\ CategoryOf(rs[a]) = CategoryOf(rs[b]))
                            => IndexIn(rr, rs[a]) < IndexIn(rr, rs[b])
                  /\ ~CrossCategoryTie(rs) => rr = rs

\* a search of two successful categories where a missing score of one ties with
\* a 0 score of the other and a third result scores higher: the other order of
\* the categories returns another sequence
C12_Witness ==
    /\ pc_search = "done" /\ ret.kind = "SearchResponse"
    /\ Len(CallsOfKind({"ok"})) = 2
    /\ Len(ret.results) = 3
    /\ ret.results[1].score = Some(1)
    /\ \E a, b \in 2..3 :
          /\ CategoryOf(ret.results[a]) # CategoryOf(ret.results[b])
          /\ ret.results[a].score = None /\ ret.results[b].score = Some(0)
    /\ \E p \in Reordered(CallsOfKind({"ok"})) : RankedResults(p) # ret.results

(***************************************************************************)
(* Claims about prepare_content_for_gpt.                                   *)
(***************************************************************************)
\* a backslash before every '_' and '*', nothing else changed
RECURSIVE Escaped(_)
Escaped(text) ==
    IF text = <<>> THEN <<>>
    ELSE (IF text[1] \in {"_", "*"} THEN <<"\\", text[1]>> ELSE <<text[1]>>)
         \o Escaped(Tail(text))

SourceBlock(item) ==
    str_Title_sp \o Escaped(item.title[1]) \o str_nl_URL_sp \o item.url
    \o str_nl_Text_sp \o Escaped(item.text[1]) \o str_nl_nl

\* the blocks of the selected positions from..Len(results), in ascending order
RECURSIVE SourceBlocks(_, _, _)
SourceBlocks(results, selected, from) ==
    IF from > Len(results) THEN <<>>
    ELSE (IF from \in selected THEN SourceBlock(results[from]) ELSE <<>>)
         \o SourceBlocks(results, selected, from + 1)

SelectedNoneField ==
    \E p \in Range(selected_indices) :
        /\ p <= Len(serialized_results)
        /\ serialized_results[p].title = None \/ serialized_results[p].text = None

\* C5: what prepare_content_for_gpt returns is the instruction line followed by
\* one block per selected existing position, in ascending position order, each
\* with the escaped title, the url as it is and the escaped text; with nothing
\* selected it is the instruction line alone.  It returns whenever every selected
\* result has a title and a text.
C5_PromptIsInstructionThenSelectedBlocks ==
    /\ pc_prompt = "done" =>
          /\ content = instruction
                       \o SourceBlocks(serialized_results, Range(selected_indices), 1)
          /\ selected_indices = <<>> => content = instruction
    /\ pc_prompt = "raised" => SelectedNoneField

\* a selection the source list of the UI can produce: the positions, in ascending
\* order, of results that have a text or a title (the ones listed with a checkbox)
Listed(p) ==
    /\ p <= Len(serialized_results)
    /\ \/ serialized_results[p].text \notin {None, Some(<<>>)}
       \/ serialized_results[p].title \notin {None, Some(<<>>)}
UISelection ==
    /\ \A p \in Range(selected_indices) : Listed(p)
    /\ \A a, b \in 1..Len(selected_indices) : a < b => selected_indices[a] < selected_indices[b]

\* C15: for results with a url and a title and a text that are each a string or
\* None, and a selection the UI can produce, prepare_content_for_gpt does not
\* raise: it returns a prompt, also when a selected result has no title, or no
\* text.
C15_ReturnsForEveryUISelection ==
    UISelection => pc_prompt # "raised"

\* the backslash in front of each '_' or '*' removed, everything else kept
RECURSIVE Unescaped(_)
Unescaped(s) ==
    IF s = <<>> THEN <<>>
    ELSE IF Len(s) >= 2 /\ s[1] = "\\" /\ s[2] \in {"_", "*"}
         THEN <<s[2]>> \o Unescaped(SubSeq(s, 3, Len(s)))
         ELSE <<s[1]>> \o Unescaped(Tail(s))

\* C11: escape_markdown_characters puts a backslash before every '_' and '*'
\* and changes nothing else, and removing the backslash in front of each '_'
\* or '*' of the escaped string gives back the original string.
C11_EscapeRoundTrips ==
    pc_escape = "done" =>
        /\ escaped_text = Escaped(escape_arg)
        /\ Unescaped(escaped_text) = escape_arg

\* a text with a backslash already in front of a '_', and a '*', was escaped
C11_Witness ==
    /\ pc_escape = "done"
    /\ escape_arg = <<"\\", "_", "*">>
    /\ escaped_text = <<"\\", "\\", "_", "\\", "*">>

\* positions selected in descending order, with a duplicate-free pair of results
\* that hold '_' and '*': two blocks came out, in ascending order
C5_Witness ==
    /\ pc_prompt = "done"
    /\ selected_indices = <<2, 1>>
    /\ Len(serialized_results) = 3
    /\ serialized_results[1] # serialized_results[2]
    /\ \A p \in 1..2 : Contains(serialized_results[p].text[1], <<"_">>)
                       \/ Contains(serialized_results[p].title[1], <<"_">>)
    /\ Len(content) > Len(instruction)

(***************************************************************************)
(* Claims about extract_metadata.                                          *)
(***************************************************************************)
StrippedLines == [k \in 1..Len(em_lines) |-> Strip(em_lines[k])]
PrefixMatches(line, prefix) ==
    Len(line) >= Len(prefix) /\ Lower(SubSeq(line, 1, Len(prefix))) = prefix
MatchingLines(prefix) == {k \in 1..Len(em_lines) : PrefixMatches(StrippedLines[k], prefix)}
First(S) == CHOOSE k \in S : \A m \in S : k <= m
\* the rest of the first line with the prefix, trimmed; empty if there is none
FirstRemainder(prefix) ==
    IF MatchingLines(prefix) = {} THEN <<>>
    ELSE StripChars(Strip(Drop(StrippedLines[First(MatchingLines(prefix))], Len(prefix))),
                    Quote)

\* C10: the title returned is the rest of the first line that starts with
\* 'title:' in any letter case, the prefix removed, and the meta description
\* that of the first 'meta description:' line; later lines change neither.
C10_FirstMatchWinsAnyCase ==
    pc_extract = "done" =>
        /\ em_title = FirstRemainder(str_title_lc)
        /\ em_meta = FirstRemainder(str_meta_description_lc)
        /\ (em_title # <<>> /\ em_meta # <<>>) =>
              \/ em_i - 1 = First(MatchingLines(str_title_lc))
              \/ em_i - 1 = First(MatchingLines(str_meta_description_lc))

(***************************************************************************)
(* Claims about generate_article.                                          *)
(***************************************************************************)
GenerateDone == pc_generate = "done"
FirstCallOk == chat_calls # <<>> /\ chat_calls[1].outcome = "ok"
\* the first answer has no 'Title:' line or no 'Meta Description:' line that
\* extract_metadata reads a value from
FirstAnswerLacks(field) == extract_metadata(chat_calls[1].text)[field] = <<>>
FirstAnswerIncomplete == FirstAnswerLacks("title") \/ FirstAnswerLacks("meta")

\* C6: one follow-up call exactly when the first call succeeded and its answer
\* lacks the title or the meta description; none when it has both; no call at
\* all after a failed first call; never more than two calls.
C6_AtMostOneFollowUp ==
    /\ Len(chat_calls) <= 2
    /\ \A k \in 1..Len(chat_calls) :
          chat_calls[k].purpose = (IF k = 1 THEN "article" ELSE "metadata")
    /\ GenerateDone =>
          /\ chat_calls # <<>>
          /\ ~FirstCallOk => Len(chat_calls) = 1
          /\ (FirstCallOk /\ FirstAnswerIncomplete) => Len(chat_calls) = 2
          /\ (FirstCallOk /\ ~FirstAnswerIncomplete) => Len(chat_calls) = 1

\* an article with a title and no meta description, and the one follow-up made
C6_Witness ==
    /\ GenerateDone
    /\ FirstCallOk
    /\ ~FirstAnswerLacks("title") /\ FirstAnswerLacks("meta")
    /\ Len(chat_calls) = 2
    /\ chat_calls[2].outcome = "ok"

\* C7: whenever the first call succeeded a draft is returned, whatever the
\* follow-up call does: the body of the first answer is kept, and a field that
\* neither answer provides stays empty.
C7_DraftWheneverFirstCallSucceeds ==
    (GenerateDone /\ FirstCallOk) =>
        /\ generated.kind = "draft"
        /\ EndsWith(generated.article, chat_calls[1].text)
        /\ \A field \in {"title", "meta"} :
              (/\ FirstAnswerLacks(field)
               /\ \/ chat_calls[2].outcome # "ok"
                  \/ extract_metadata(chat_calls[2].text)[field] = <<>>)
              => generated[field] = <<>>

(***************************************************************************)
(* Claims about convert_to_wordpress_blocks.                               *)
(***************************************************************************)
ConvertDone == pc_convert = "done"
StrippedDoc == [k \in 1..Len(lines) |-> Strip(lines[k])]
\* the lines that become, or go into, a heading or paragraph block
ContentLines ==
    {k \in 1..Len(lines) : ~IsMetadataLine(StrippedDoc[k]) /\ ~IsBlank(StrippedDoc[k])}
BlocksHolding(k) == {b \in 1..Len(block_lines) : k \in block_lines[b]}

str_Body_line == <<"B", "o", "d", "y", " ", "l", "i", "n", "e">>
str_More_body == <<"M", "o", "r", "e", " ", "b", "o", "d", "y">>

\* C8: the heading and paragraph blocks come out in the order of their source
\* lines: of two content lines the block with the earlier one is never behind
\* the block with the later one, and every content line is in one block only;
\* the document '# T', '', 'Body line', '', '## H2', '', 'More body' gives
\* Heading 1 T, Paragraph 'Body line', Heading 2 H2, Paragraph 'More body'.
C8_BlocksInSourceOrder ==
    ConvertDone =>
        /\ \A k \in ContentLines : Cardinality(BlocksHolding(k)) = 1
        /\ \A k1, k2 \in ContentLines : k1 < k2 =>
              \A b1 \in BlocksHolding(k1), b2 \in BlocksHolding(k2) : b1 <= b2
        /\ lines = ExampleHeadings =>
              wp_blocks = << Block("heading1", <<"T">>), Block("paragraph", str_Body_line),
                             Block("heading2", <<"H", "2">>),
                             Block("paragraph", str_More_body) >>

LinesWith(prefix) == {k \in 1..Len(lines) : StartsWith(StrippedDoc[k], prefix)}
Last(S) == CHOOSE k \in S : \A m \in S : m <= k
\* the rest of the last line with the prefix, trimmed; empty if there is none
RestAfter(prefix) ==
    IF LinesWith(prefix) = {} THEN <<>>
    ELSE Strip(Drop(StrippedDoc[Last(LinesWith(prefix))], Len(prefix)))

\* C9: a 'Title:', 'Meta Description:' or 'Excerpt:' line sets its metadata
\* field to the rest of the line behind the prefix, trimmed ('Title: Foo' and
\* 'Meta Description: Bar' give 'Foo' and 'Bar'), and is in no paragraph.
C9_MetadataIsRestOfLine ==
    ConvertDone =>
        /\ metadata.title = RestAfter(str_Title)
        /\ metadata.meta_description = RestAfter(str_Meta_Description)
        /\ metadata.excerpt = RestAfter(str_Excerpt)
        /\ \A k \in 1..Len(lines) : IsMetadataLine(StrippedDoc[k]) => BlocksHolding(k) = {}

(***************************************************************************)
(* Claims about the paragraphs convert_to_wordpress_blocks writes.         *)
(***************************************************************************)
Occurrences(s, sub) ==
    Cardinality({k \in 1..(Len(s) - Len(sub) + 1) : SubSeq(s, k, k + Len(sub) - 1) = sub})

RECURSIVE Ascending(_)
Ascending(S) ==
    IF S = {} THEN <<>>
    ELSE LET least == CHOOSE k \in S : \A m \in S : k <= m
         IN  <<least>> \o Ascending(S \ {least})

IsParagraph(b) == wp_blocks[b].kind = "paragraph"
\* the text of the source lines that went into block b, as the paragraph was written
ParagraphSource(b) ==
    LET ks == Ascending(block_lines[b])
    IN  Join([k \in 1..Len(ks) |-> StrippedDoc[ks[k]]], str_sp)

CitationMarkers(s) == Occurrences(s, str_Source_open) + Occurrences(s, str_Ref_open)
CitationOpening == str_Ref_open \o AnchorOpen
AnchorPieces == {AnchorOpen[1], AnchorMid[1], AnchorClose[1]}

\* a citation whose anchor is closed: the opening, a label without another
\* opening, then '</a>' and the ')' behind it
ClosedCitationAt(t, k) ==
    /\ k + Len(CitationOpening) - 1 <= Len(t)
    /\ SubSeq(t, k, k + Len(CitationOpening) - 1) = CitationOpening
    /\ \E e \in (k + Len(CitationOpening))..(Len(t) - 1) :
          /\ t[e] = AnchorClose[1] /\ t[e + 1] = ")"
          /\ \A m \in (k + Len(CitationOpening))..(e - 1) :
                t[m] \notin {AnchorOpen[1], AnchorClose[1], ")"}

\* C13: a paragraph with exactly one citation marker, '(Source: ' or the Thai
\* one, comes out with one citation-link opening whose anchor is closed: the
\* label inside the anchor, the ')' behind the '</a>', and as many '</a>' as
\* anchor openings in the paragraph.
C13_CitationAnchorClosed ==
    ConvertDone =>
        \A b \in 1..Len(wp_blocks) :
            (IsParagraph(b) /\ CitationMarkers(ParagraphSource(b)) = 1) =>
                LET t == wp_blocks[b].text
                IN  /\ Occurrences(t, CitationOpening) = 1
                    /\ \E k \in 1..Len(t) : ClosedCitationAt(t, k)
                    /\ Occurrences(t, AnchorOpen) = Occurrences(t, AnchorClose)

\* the markdown links of s, in order: label and url of each
RECURSIVE LinksOf(_)
LinksOf(s) ==
    LET m == LinkMatch(s)
    IN  IF ~m.found THEN <<>>
        ELSE <<[label |-> SubSeq(s, m.from + 1, m.mid - 1),
                url |-> SubSeq(s, m.mid + 2, m.to - 1)]>>
             \o LinksOf(Drop(s, m.to))

\* the text of s before, between and behind its links
RECURSIVE PlainSegments(_)
PlainSegments(s) ==
    LET m == LinkMatch(s)
    IN  IF ~m.found THEN <<s>>
        ELSE <<SubSeq(s, 1, m.from - 1)>> \o PlainSegments(Drop(s, m.to))

\* the plain text of s in runs: what stands between links and citation markers
PlainRuns(s) ==
    UNION {Range(Split(Replace(seg, str_Source_open, str_Ref_open), str_Ref_open))
           : seg \in Range(PlainSegments(s))}

\* t without the pieces of anchors: the text a reader sees, and the urls
WithoutAnchorPieces(t) == SelectSeq(t, LAMBDA c : c \notin AnchorPieces)

\* the complete anchors of t, in order: '<a ... href="' url '" ...>' label '</a>'
AnchorAt(t, k) ==
    LET mids == {m \in (k + 1)..Len(t) : t[m] = AnchorMid[1]}
        m == CHOOSE x \in mids : \A y \in mids : x <= y
        ends == {e \in (m + 1)..Len(t) : t[e] = AnchorClose[1]}
        e == CHOOSE x \in ends : \A y \in ends : x <= y
    IN  IF t[k] # AnchorOpen[1] \/ mids = {} \/ ends = {} THEN None
        ELSE IF \E x \in ((k + 1)..(m - 1)) \cup ((m + 1)..(e - 1)) : t[x] \in AnchorPieces
             THEN None
             ELSE Some([label |-> SubSeq(t, m + 1, e - 1), url |-> SubSeq(t, k + 1, m - 1)])

AnchorsOf(t) ==
    LET ks == Ascending({k \in 1..Len(t) : AnchorAt(t, k) # None})
    IN  [n \in 1..Len(ks) |-> Val(AnchorAt(t, ks[n]))]

\* C14: a paragraph block holds one anchor for each markdown link of its
\* paragraph, in the order of the links, with the link's url and label, and
\* every run of plain text before, between and behind the links, with or
\* without a citation marker in the paragraph.
C14_LinksAndTextKept ==
    ConvertDone =>
        \A b \in 1..Len(wp_blocks) :
            IsParagraph(b) =>
                LET src == ParagraphSource(b)
                    t == wp_blocks[b].text
                IN  /\ AnchorsOf(t) = LinksOf(src)
                    /\ \A run \in PlainRuns(src) : Contains(WithoutAnchorPieces(t), run)

(***************************************************************************)
(* Claims about main.                                                      *)
(***************************************************************************)
\* the source checkboxes that are checked: the listed positions not unchecked
CheckedSources ==
    {k \in 1..Len(Val(search_results)) :
        /\ Truthy(Val(search_results)[k].text) \/ Truthy(Val(search_results)[k].title)
        /\ k \notin source_unchecked}

\* C16: in every state in which a run of main has called generate_article (and
\* with it the chat backend), search_performed is true, the stored results are
\* not empty, at least one position is selected, and prepare_content_for_gpt
\* was called with the stored results and exactly the positions of the checked
\* sources in them.
C16_GenerateOnlyFromSelectedSources ==
    pc_main = "generate" =>
        /\ search_performed
        /\ search_results # None
        /\ Val(search_results) # <<>>
        /\ prepare_args # None
        /\ Val(prepare_args).results = Val(search_results)
        /\ Val(prepare_args).selected_indices # <<>>
        /\ Range(Val(prepare_args).selected_indices) = CheckedSources
        /\ \A a, b \in 1..Len(Val(prepare_args).selected_indices) :
              a < b => Val(prepare_args).selected_indices[a]
                         < Val(prepare_args).selected_indices[b]

\* an article generated from the second of two stored results, after the first
\* was unchecked
C16_Witness ==
    /\ pc_main = "generate"
    /\ Len(Val(search_results)) = 2
    /\ source_unchecked = {1}
    /\ Val(prepare_args).selected_indices = <<2>>

====
